---- MODULE Spec2Model ----
(***************************************************************************)
(* Model of the bibliography auditor bib_audit_batch.py: the splitter      *)
(* (split_entries), the record parser (parse_entry), the rule engine       *)
(* (suggest_entry with its helpers), the serializer (rebuild_entry) and    *)
(* the batch driver (audit_all).                                           *)
(*                                                                         *)
(* A Python str is a sequence of one-character strings.  Positions are     *)
(* Python's 0-based positions: character k of s is s[k+1], the slice       *)
(* s[a:b] is Slice(s, a, b), and -1 is "not found" as str.find returns it. *)
(* A dict is a sequence of <<name, value>> pairs with distinct names, in   *)
(* insertion order.  The em dash of two messages is written "--".          *)
(***************************************************************************)
EXTENDS Integers, Sequences, FiniteSets, TLC

VARIABLES
    bib_text,        \* audit_all: the input document
    pc,              \* position of the run
    i,               \* split_entries: scan position
    entries,         \* split_entries: chunks emitted so far
    idx,             \* audit_all: number of chunks the for loop has consumed
    cleaned_chunks,  \* audit_all: blocks of the cleaned output
    report_lines,    \* audit_all: lines of the report
    cleaned_bib,     \* audit_all: returned cleaned document
    report_text,     \* audit_all: returned report
    text,            \* record pipeline: the text handed to parse_entry
    parsed,          \* record pipeline: outcome of parse_entry
    result,          \* record pipeline: outcome of suggest_entry
    pass,            \* record pipeline: 1 on the first audit, 2 on the re-audit
    first            \* record pipeline: outcome of the first audit

vars == <<bib_text, pc, i, entries, idx, cleaned_chunks, report_lines,
          cleaned_bib, report_text, text, parsed, result, pass, first>>

batch_vars == <<bib_text, i, entries, idx, cleaned_chunks, report_lines,
                cleaned_bib, report_text>>

record_vars == <<text, parsed, result, pass, first>>

(***************************************************************************)
(* Bounds of the model.                                                    *)
(***************************************************************************)
MaxFrags == 4

MaxParts == 3

MaxAuthorParts == 3

MaxFields == 2

(***************************************************************************)
(* Characters.                                                             *)
(***************************************************************************)
LowerLetters == <<"a","b","c","d","e","f","g","h","i","j","k","l","m",
                  "n","o","p","q","r","s","t","u","v","w","x","y","z">>

UpperLetters == <<"A","B","C","D","E","F","G","H","I","J","K","L","M",
                  "N","O","P","Q","R","S","T","U","V","W","X","Y","Z">>

Digits == {"0","1","2","3","4","5","6","7","8","9"}

Range(s) == {s[k] : k \in DOMAIN s}

\* the code point U+00DF (LATIN SMALL LETTER SHARP S) of a Python str: a
\* lowercase letter outside [A-Za-z] whose uppercase is the two letters SS
SharpS == "U+00DF"

LowerChars == Range(LowerLetters)

UpperChars == Range(UpperLetters)

\* [A-Za-z]
LetterChars == LowerChars \cup UpperChars

\* [^\W\d_] (flags=re.UNICODE) within the characters of the model
AlphaChars == LetterChars \cup {SharpS}

\* \w
WordChars == AlphaChars \cup Digits \cup {"_"}

\* \s, and what str.strip and str.split take for whitespace
SpaceChars == {" ", "\n", "\t", "\r"}

IsLower(c) == c \in LowerChars \cup {SharpS}

IsUpper(c) == c \in UpperChars

IsLetter(c) == c \in LetterChars

IsAlpha(c) == c \in AlphaChars

IsSpace(c) == c \in SpaceChars

upper_char(c) ==
    IF c \in LowerChars
    THEN UpperLetters[CHOOSE k \in DOMAIN LowerLetters : LowerLetters[k] = c]
    ELSE c

lower_char(c) ==
    IF IsUpper(c)
    THEN LowerLetters[CHOOSE k \in DOMAIN UpperLetters : UpperLetters[k] = c]
    ELSE c

(***************************************************************************)
(* str methods.                                                            *)
(***************************************************************************)
Min(S) == CHOOSE m \in S : \A k \in S : m <= k

Max(S) == CHOOSE m \in S : \A k \in S : m >= k

Slice(s, a, b) == SubSeq(s, a + 1, b)

find(s, c, start) ==
    LET hits == {k \in start .. Len(s) - 1 : s[k + 1] = c}
    IN  IF hits = {} THEN -1 ELSE Min(hits)

rfind(s, c, start, end) ==
    LET hits == {k \in start .. end - 1 : s[k + 1] = c}
    IN  IF hits = {} THEN -1 ELSE Max(hits)

\* end of the longest run of characters of a class that starts at position p
RECURSIVE run_end(_, _, _)
run_end(s, p, class) ==
    IF p < Len(s) /\ s[p + 1] \in class THEN run_end(s, p + 1, class) ELSE p

\* end of the longest run of characters outside a class that starts at p
RECURSIVE run_until(_, _, _)
run_until(s, p, class) ==
    IF p < Len(s) /\ s[p + 1] \notin class THEN run_until(s, p + 1, class) ELSE p

\* start of the longest run of characters of a class that ends at position p
RECURSIVE run_start(_, _, _)
run_start(s, p, class) ==
    IF p > 0 /\ s[p] \in class THEN run_start(s, p - 1, class) ELSE p

lstrip(s) == Slice(s, run_end(s, 0, SpaceChars), Len(s))

rstrip(s) == Slice(s, 0, run_start(s, Len(s), SpaceChars))

strip(s) == rstrip(lstrip(s))

startswith(s, p) == Len(s) >= Len(p) /\ SubSeq(s, 1, Len(p)) = p

endswith(s, p) == Len(s) >= Len(p) /\ SubSeq(s, Len(s) - Len(p) + 1, Len(s)) = p

lower(s) == [k \in DOMAIN s |-> lower_char(s[k])]

contains(s, p) == \E k \in 0 .. Len(s) - Len(p) : Slice(s, k, k + Len(p)) = p

RECURSIVE join(_, _)
join(sep, parts) ==
    IF parts = <<>> THEN <<>>
    ELSE IF Len(parts) = 1 THEN parts[1]
    ELSE parts[1] \o sep \o join(sep, Tail(parts))

\* str.upper: character by character; a sharp s becomes SS
upper(s) ==
    join(<<>>, [k \in DOMAIN s |-> IF s[k] = SharpS THEN <<"S", "S">> ELSE <<upper_char(s[k])>>])

\* str.capitalize: the first character in title case (a sharp s becomes Ss),
\* the rest in lower case
capitalize(s) ==
    join(<<>>, [k \in DOMAIN s |-> IF k > 1 THEN <<lower_char(s[k])>>
                                   ELSE IF s[k] = SharpS THEN <<"S", "s">>
                                   ELSE <<upper_char(s[k])>>])

\* str.replace: the occurrences of old, left to right, not overlapping
RECURSIVE replace(_, _, _)
replace(s, old, new) ==
    LET hits == {k \in 0 .. Len(s) - Len(old) : Slice(s, k, k + Len(old)) = old}
    IN  IF hits = {} THEN s
        ELSE Slice(s, 0, Min(hits)) \o new
             \o replace(Slice(s, Min(hits) + Len(old), Len(s)), old, new)

(***************************************************************************)
(* Literals of the program.                                                *)
(***************************************************************************)
K_abstract ==
    <<"a","b","s","t","r","a","c","t">>
K_author ==
    <<"a","u","t","h","o","r">>
K_title ==
    <<"t","i","t","l","e">>
K_year ==
    <<"y","e","a","r">>
K_date ==
    <<"d","a","t","e">>
K_type ==
    <<"t","y","p","e">>
K_institution ==
    <<"i","n","s","t","i","t","u","t","i","o","n">>
K_organization ==
    <<"o","r","g","a","n","i","z","a","t","i","o","n">>
K_journaltitle ==
    <<"j","o","u","r","n","a","l","t","i","t","l","e">>
K_volume ==
    <<"v","o","l","u","m","e">>
K_number ==
    <<"n","u","m","b","e","r">>
K_pages ==
    <<"p","a","g","e","s">>
K_edition ==
    <<"e","d","i","t","i","o","n">>
K_location ==
    <<"l","o","c","a","t","i","o","n">>
K_publisher ==
    <<"p","u","b","l","i","s","h","e","r">>
K_note ==
    <<"n","o","t","e">>
K_url ==
    <<"u","r","l">>
K_urldate ==
    <<"u","r","l","d","a","t","e">>
K_addendum ==
    <<"a","d","d","e","n","d","u","m">>
K_issn ==
    <<"i","s","s","n">>
K_isbn ==
    <<"i","s","b","n">>
K_series ==
    <<"s","e","r","i","e","s">>
K_doi ==
    <<"d","o","i">>
T_article ==
    <<"a","r","t","i","c","l","e">>
T_online ==
    <<"o","n","l","i","n","e">>
T_electronic ==
    <<"e","l","e","c","t","r","o","n","i","c">>
T_book ==
    <<"b","o","o","k">>
T_thesis ==
    <<"t","h","e","s","i","s">>
V_Online ==
    <<"[","O","n","l","i","n","e","]">>
V_online_lc ==
    <<"[","o","n","l","i","n","e","]">>
V_Accessed ==
    <<"A","c","c","e","s","s","e","d">>
V_ADD_JOURNAL_TITLE ==
    <<"<","A","D","D"," ","J","O","U","R","N","A","L"," ","T","I","T","L","E",">">>
V_ADD_PAGES ==
    <<"<","A","D","D"," ","P","A","G","E","S",">">>
V_ADD_VOLUME ==
    <<"<","A","D","D"," ","V","O","L","U","M","E",">">>
V_ADD_open ==
    <<"<","A","D","D"," ">>
M_ParseError ==
    <<"[","?","]"," ","P","a","r","s","e"," ","e","r","r","o","r",":"," ">>
M_NoHeader ==
    <<"C","o","u","l","d"," ","n","o","t"," ","f","i","n","d"," ","@","t","y","p","e","{","k","e","y",","," ",".",".",".","}"," ","i","n"," ","e","n","t","r","y",".">>
M_Snippet ==
    <<" "," ","(","E","n","t","r","y"," ","s","n","i","p","p","e","t",")">>
M_Removed ==
    <<"R","e","m","o","v","e","d"," ","n","o","i","s","y"," ","f","i","e","l","d"," ","'">>
M_Initials ==
    <<"A","u","t","h","o","r"," ","u","s","e","s"," ","f","u","l","l"," ","g","i","v","e","n"," ","n","a","m","e","s",";"," ","u","s","e"," ","i","n","i","t","i","a","l","s"," ","(","S","u","r","n","a","m","e",","," ","X","."," ","o","r"," ","S","u","r","n","a","m","e",","," ","X","."," ","Y",".",")"," ","p","e","r"," ","M","a","y","n","o","o","t","h"," ","H","a","r","v","a","r","d",".">>
M_TitleCase ==
    <<"T","i","t","l","e"," ","l","o","o","k","e","d"," ","l","i","k","e"," ","T","i","t","l","e"," ","C","a","s","e",";"," ","c","o","n","v","e","r","t","e","d"," ","t","o"," ","s","e","n","t","e","n","c","e"," ","c","a","s","e"," ","i","n"," ","s","u","g","g","e","s","t","i","o","n",".">>
M_Note ==
    <<"M","i","s","s","i","n","g"," ","n","o","t","e"," ","="," ","{","[","O","n","l","i","n","e","]","}"," ","f","o","r"," ","o","n","l","i","n","e"," ","s","o","u","r","c","e",".">>
M_Urldate ==
    <<"M","i","s","s","i","n","g"," ","u","r","l","d","a","t","e"," ","(","I","S","O"," ","Y","Y","Y","Y","-","M","M","-","D","D",")",".">>
M_Addendum ==
    <<"M","i","s","s","i","n","g"," ","a","d","d","e","n","d","u","m"," ","w","i","t","h"," ","A","c","c","e","s","s","e","d",":"," ","D","a","y"," ","M","o","n","t","h"," ","Y","e","a","r",".">>
M_Url ==
    <<"M","i","s","s","i","n","g"," ","u","r","l"," ","f","o","r"," ","o","n","l","i","n","e"," ","s","o","u","r","c","e",".">>
M_Journaltitle ==
    <<"M","i","s","s","i","n","g"," ","j","o","u","r","n","a","l","t","i","t","l","e"," ","f","o","r"," ","a","r","t","i","c","l","e",".">>
M_Pages ==
    <<"M","i","s","s","i","n","g"," ","p","a","g","e","s"," ","f","o","r"," ","a","r","t","i","c","l","e",".">>
M_Volume ==
    <<"M","i","s","s","i","n","g"," ","v","o","l","u","m","e","/","n","u","m","b","e","r"," ","f","o","r"," ","a","r","t","i","c","l","e",".">>
M_Missing ==
    <<"M","i","s","s","i","n","g"," ">>
M_ForBook ==
    <<" ","f","o","r"," ","b","o","o","k",".">>
M_ForThesis ==
    <<" ","f","o","r"," ","t","h","e","s","i","s",".">>
M_DateYear ==
    <<"B","o","t","h"," ","'","d","a","t","e","'"," ","a","n","d"," ","'","y","e","a","r","'"," ","p","r","e","s","e","n","t"," ","-","-"," ","p","i","c","k"," ","o","n","e"," ","(","u","s","u","a","l","l","y"," ","'","y","e","a","r","'",")",".">>
M_InstOrg ==
    <<"B","o","t","h"," ","'","i","n","s","t","i","t","u","t","i","o","n","'"," ","a","n","d"," ","'","o","r","g","a","n","i","z","a","t","i","o","n","'"," ","p","r","e","s","e","n","t"," ","-","-"," ","k","e","e","p"," ","o","n","e"," ","c","o","n","s","i","s","t","e","n","t","l","y",".">>
M_Edition ==
    <<"E","d","i","t","i","o","n"," ","s","h","o","u","l","d"," ","b","e"," ","n","u","m","e","r","i","c"," ","(","e",".","g",".",","," ","3",")"," ","o","r"," ","o","r","d","i","n","a","l"," ","(","e",".","g",".",","," ","3","r","d",")",".">>
M_OK ==
    <<" ","-","-"," ","O","K">>
M_IndexError ==
    <<"l","i","s","t"," ","i","n","d","e","x"," ","o","u","t"," ","o","f"," ","r","a","n","g","e">>
NOTBIB ==
    <<"n","o","t"," ","a"," ","b","i","b","t","e","x"," ","e","n","t","r","y"," ","a","t"," ","a","l","l">>
REC_MIN ==
    <<"@","a","{","k",",","}">>
COMMENT_LINE ==
    <<"\n","%"," ","s","k","i","p"," ","t","h","i","s","\n">>
P_book ==
    <<"@","b","o","o","k","{","k",",">>
P_article ==
    <<"@","A","r","t","i","c","l","e","{","d","o","e","2","0","2","0",",">>
P_blank_key ==
    <<"@","a","{"," ",",">>
P_brace_key ==
    <<"@","a","{","x","=","{",",">>
P_junk ==
    <<"j","u","n","k"," ">>
P_author_two ==
    <<" ","a","u","t","h","o","r"," ","="," ","{","D","o","e",","," ","J","o","h","n"," ","a","n","d"," ","S","m","i","t","h","}">>
P_author_one ==
    <<" ","a","u","t","h","o","r"," ","="," ","{","D","o","e",","," ","J","o","h","n","}",",">>
P_title ==
    <<" ","t","i","t","l","e"," ","="," ","{","A"," ","S","t","u","d","y"," ","O","f"," ","T","h","i","n","g","s","}",",">>
P_year ==
    <<" ","y","e","a","r"," ","="," ","{","2","0","2","0","}">>
P_close ==
    <<"}">>
A_doe_john ==
    <<"D","o","e",","," ","J","o","h","n">>
A_and ==
    <<" ","a","n","d"," ">>
A_smith ==
    <<"S","m","i","t","h">>
A_corp ==
    <<"{","A","c","m","e"," ","C","o","r","p","}">>
A_doe_j ==
    <<"D","o","e",","," ","J",".">>
A_jean_luc ==
    <<"R","o","e",","," ","J","e","a","n","-","L","u","c"," ","M">>
V_title_a ==
    <<"A"," ","S","t","u","d","y"," ","O","f"," ","T","h","i","n","g","s">>
V_title_b ==
    <<"F","o","o",":"," ","A"," ","B","a","r">>
T_misc ==
    <<"m","i","s","c">>
K_Abstract_uc ==
    <<"A","b","s","t","r","a","c","t">>
K_zz ==
    <<"z","z">>
V_online_uc ==
    <<"[","O","N","L","I","N","E","]">>
V_url ==
    <<"h","t","t","p",":","/","/","e",".","x">>
V_acc ==
    <<"(","A","c","c","e","s","s","e","d",":"," ","1"," ","M","a","y"," ","2","0","2","0",")">>
V_3rd ==
    <<"3","r","d">>
V_third ==
    <<"t","h","i","r","d">>
V_x ==
    <<"x">>
A_three ==
    <<"3">>

TODAY_ISO ==
    <<"2","0","2","6","-","1","1","-","0","4">>

TODAY_ACCESSED ==
    <<"(","A","c","c","e","s","s","e","d",":"," ","4"," ","N","o","v","e","m","b","e","r"," ","2","0","2","6",")">>

SnippetMax == 200

NameWidth == 12

(***************************************************************************)
(* split_entries: one outer-loop iteration per step.                       *)
(***************************************************************************)
\* the inner while loop: from position j at the given depth, consume
\* characters until depth 0 or the end of the text; returns <<j, depth>>.
\* Only braces change depth, so the loop is followed from brace to brace.
RECURSIVE scan_braces(_, _, _)
scan_braces(s, j, depth) ==
    LET braces == {k \in j .. Len(s) - 1 : s[k + 1] \in {"{", "}"}}
    IN  IF depth = 0 THEN <<j, depth>>
        ELSE IF braces = {} THEN <<Len(s), depth>>
        ELSE scan_braces(s, Min(braces) + 1,
                         IF s[Min(braces) + 1] = "{" THEN depth + 1 ELSE depth - 1)

\* the comment test of the loop: the '@' at `at` has a newline before it and
\* the text between that newline and the '@' starts, after whitespace, with '%'
in_comment(s, at) ==
    /\ at > 0
    /\ LET prev_nl == rfind(s, "\n", 0, at)
       IN  /\ prev_nl # -1
           /\ startswith(lstrip(Slice(s, prev_nl + 1, at)), <<"%">>)

\* what one iteration of `while i < n` from scan position p does: the next
\* scan position, the chunk appended (if any) and whether the loop goes on
\* split_scanned with the scan resumed just after the '@' of the chunk
split_scanned_rescan(s, p, at, jd) ==
    IF jd[2] = 0
    THEN [kind |-> "chunk", at |-> at, i |-> at + 1,
          emit |-> <<Slice(s, at, jd[1])>>, more |-> TRUE]
    ELSE [kind |-> "tail", at |-> at, i |-> p,
          emit |-> <<Slice(s, at, Len(s))>>, more |-> FALSE]

split_scanned(s, p, at, jd) ==
    IF jd[2] = 0
    THEN [kind |-> "chunk", at |-> at, i |-> jd[1],
          emit |-> <<Slice(s, at, jd[1])>>, more |-> TRUE]
    ELSE [kind |-> "tail", at |-> at, i |-> p,
          emit |-> <<Slice(s, at, Len(s))>>, more |-> FALSE]

split_brace(s, p, at, brace) ==
    IF brace = -1
    THEN [kind |-> "no_brace", at |-> at, i |-> p, emit |-> <<>>, more |-> FALSE]
    ELSE split_scanned(s, p, at, scan_braces(s, brace + 1, 1))

split_at(s, p, at) ==
    IF at = -1
    THEN [kind |-> "no_at", at |-> at, i |-> p, emit |-> <<>>, more |-> FALSE]
    ELSE IF in_comment(s, at)
    THEN [kind |-> "comment", at |-> at, i |-> at + 1, emit |-> <<>>, more |-> TRUE]
    ELSE split_brace(s, p, at, find(s, "{", at))

split_iteration(s, p) == split_at(s, p, find(s, "@", p))

\* the whole function, as the loop computes it
RECURSIVE split_from(_, _)
split_rest(s, it) == it.emit \o (IF it.more THEN split_from(s, it.i) ELSE <<>>)

split_from(s, p) ==
    IF p < Len(s)
    THEN split_rest(s, split_iteration(s, p))
    ELSE <<>>

split_entries(s) == split_from(s, 0)

(***************************************************************************)
(* dict operations on a sequence of <<name, value>> pairs.                 *)
(***************************************************************************)
dict_has(F, k) == \E n \in DOMAIN F : F[n][1] = k

dict_get(F, k, default) ==
    IF dict_has(F, k) THEN F[CHOOSE n \in DOMAIN F : F[n][1] = k][2] ELSE default

dict_set(F, k, v) ==
    IF dict_has(F, k)
    THEN [n \in DOMAIN F |-> IF F[n][1] = k THEN <<k, v>> ELSE F[n]]
    ELSE Append(F, <<k, v>>)

dict_pop(F, k) == SelectSeq(F, LAMBDA kv : kv[1] # k)

\* dict_from_pairs with the first value of a name kept
RECURSIVE dict_first_wins(_, _)
dict_first_wins(F, pairs) ==
    IF pairs = <<>> THEN F
    ELSE dict_first_wins(IF dict_has(F, pairs[1][1]) THEN F
                         ELSE dict_set(F, pairs[1][1], pairs[1][2]),
                         Tail(pairs))

RECURSIVE dict_from_pairs(_, _)
dict_from_pairs(F, pairs) ==
    IF pairs = <<>> THEN F
    ELSE dict_from_pairs(dict_set(F, pairs[1][1], pairs[1][2]), Tail(pairs))

(***************************************************************************)
(* parse_entry and its two patterns.                                       *)
(***************************************************************************)
\* ENTRY_HEAD_RE tried at position p:  @(\w+)\s*\{\s*([^,]+)\s*,
head_match_at(s, p) ==
    LET n     == Len(s)
        fail  == [ok |-> FALSE, type |-> <<>>, key |-> <<>>]
    IN  IF ~(p < n /\ s[p + 1] = "@") THEN fail
        ELSE LET w == run_end(s, p + 1, WordChars)
                 b == run_end(s, w, SpaceChars)
             IN  IF ~(w > p + 1 /\ b < n /\ s[b + 1] = "{") THEN fail
                 ELSE LET r == b + 1
                          c == find(s, ",", r)
                          t == run_end(s, r, SpaceChars)
                      IN  IF c = -1 \/ c = r THEN fail
                          ELSE [ok   |-> TRUE,
                                type |-> Slice(s, p + 1, w),
                                \* \s* gives back one character when the
                                \* text up to the comma is all whitespace
                                key  |-> Slice(s, IF t >= c THEN c - 1 ELSE t, c)]

\* head_search as re.match would do it: the pattern tried at position 0 only
head_match_only(s) == head_match_at(s, 0)

\* ENTRY_HEAD_RE.search: the leftmost position where the pattern matches
head_search(s) ==
    LET hits == {p \in 0 .. Len(s) - 1 : head_match_at(s, p).ok}
    IN  IF hits = {} THEN [ok |-> FALSE, type |-> <<>>, key |-> <<>>]
        ELSE head_match_at(s, Min(hits))

\* FIELD_RE tried at position p:  ([A-Za-z]+)\s*=\s*\{(.*?)\}\s*,?
field_match_at(s, p) ==
    LET n    == Len(s)
        fail == [ok |-> FALSE, name |-> <<>>, value |-> <<>>, end |-> p]
    IN  IF ~(p < n /\ IsLetter(s[p + 1])) THEN fail
        ELSE LET e1 == run_end(s, p, LetterChars)
                 e2 == run_end(s, e1, SpaceChars)
             IN  IF ~(e2 < n /\ s[e2 + 1] = "=") THEN fail
                 ELSE LET e3 == run_end(s, e2 + 1, SpaceChars)
                      IN  IF ~(e3 < n /\ s[e3 + 1] = "{") THEN fail
                          ELSE LET close == find(s, "}", e3 + 1)
                               IN  IF close = -1 THEN fail
                                   ELSE LET e4 == run_end(s, close + 1, SpaceChars)
                                        IN  [ok    |-> TRUE,
                                             name  |-> Slice(s, p, e1),
                                             value |-> Slice(s, e3 + 1, close),
                                             end   |-> IF e4 < n /\ s[e4 + 1] = ","
                                                       THEN e4 + 1 ELSE e4]

\* FIELD_RE.finditer from position p: the <<name.lower(), value.strip()>>
\* pairs of the successive leftmost non-overlapping matches
RECURSIVE field_pairs(_, _)
pairs_from(s, m) == <<<<lower(m.name), strip(m.value)>>>> \o field_pairs(s, m.end)

field_pairs(s, p) ==
    LET hits == {q \in p .. Len(s) - 1 : IsLetter(s[q + 1]) /\ field_match_at(s, q).ok}
    IN  IF hits = {} THEN <<>> ELSE pairs_from(s, field_match_at(s, Min(hits)))

\* parse_entry once the header search is done
parse_with_head(s, m) ==
    IF ~m.ok
    THEN [ok |-> FALSE, etype |-> <<>>, key |-> <<>>, F |-> <<>>]
    ELSE [ok    |-> TRUE,
          etype |-> lower(m.type),
          key   |-> strip(m.key),
          F     |-> dict_from_pairs(<<>>, field_pairs(s, 0))]

parse_entry(s) == parse_with_head(s, head_search(s))

(***************************************************************************)
(* re.split with a capturing separator: the pieces and the separators      *)
(* between them, alternating.  The separator is a run of whitespace or,    *)
(* when hyphen is TRUE, a single '-'.                                      *)
(***************************************************************************)
RECURSIVE split_keep(_, _)
\* the piece s[0:e], the separator s[e:f] and the split of the rest
split_piece(s, hyphen, e, f) ==
    <<Slice(s, 0, e), Slice(s, e, f)>> \o split_keep(Slice(s, f, Len(s)), hyphen)

split_sep(s, hyphen, e) ==
    IF e = Len(s) THEN <<s>>
    ELSE split_piece(s, hyphen, e, IF IsSpace(s[e + 1]) THEN run_end(s, e, SpaceChars) ELSE e + 1)

split_keep(s, hyphen) ==
    split_sep(s, hyphen, run_until(s, 0, SpaceChars \cup (IF hyphen THEN {"-"} ELSE {})))

\* str.split(): the whitespace-separated words
split_words(s) == SelectSeq(split_keep(s, FALSE), LAMBDA t : t # <<>> /\ ~IsSpace(t[1]))

isspace(t) == t # <<>> /\ \A k \in DOMAIN t : IsSpace(t[k])

isupper(t) == (\E k \in DOMAIN t : IsUpper(t[k])) /\ ~(\E k \in DOMAIN t : IsLower(t[k]))

(***************************************************************************)
(* sentence_case                                                           *)
(***************************************************************************)
\* t[:1].upper() + t[1:].lower()
cap_lower(t) == IF t = <<>> THEN <<>> ELSE upper(<<t[1]>>) \o lower(Tail(t))

RECURSIVE sentence_loop(_, _, _)
sentence_loop(tokens, out, first_alpha_done) ==
    IF tokens = <<>> THEN out
    ELSE LET t == tokens[1]
             piece ==
                 IF isspace(t) THEN t
                 ELSE IF ~first_alpha_done
                      THEN IF isupper(t) /\ Len(t) <= 5 THEN t ELSE cap_lower(t)
                      ELSE IF isupper(t) /\ Len(t) <= 5 THEN t
                           ELSE IF out # <<>> /\ endswith(out[Len(out)], <<":">>)
                                THEN cap_lower(t)
                                ELSE lower(t)
         IN  sentence_loop(Tail(tokens), Append(out, piece),
                           first_alpha_done \/ ~isspace(t))

sentence_case(title) ==
    IF strip(title) = <<>> THEN title
    ELSE join(<<>>, sentence_loop(split_keep(title, FALSE), <<>>, FALSE))

(***************************************************************************)
(* Initials enforcement                                                    *)
(***************************************************************************)
\* the separator  \s+\band\b\s+  (ignoring case) tried at position p
and_match_at(s, p) ==
    LET n == Len(s)
        fail == [ok |-> FALSE, end |-> p]
    IN  IF ~(p < n /\ IsSpace(s[p + 1])) THEN fail
        ELSE LET q == run_end(s, p, SpaceChars)
             IN  IF ~(q + 3 < n /\ lower(Slice(s, q, q + 3)) = <<"a","n","d">>
                               /\ IsSpace(s[q + 4]))
                 THEN fail
                 ELSE [ok |-> TRUE, end |-> run_end(s, q + 3, SpaceChars)]

\* re.split(r'\s+\band\b\s+', author_field, flags=re.IGNORECASE)
RECURSIVE split_authors(_)
split_at_and(s, p) == <<Slice(s, 0, p)>> \o split_authors(Slice(s, and_match_at(s, p).end, Len(s)))

split_authors(s) ==
    LET hits == {p \in 0 .. Len(s) - 1 : and_match_at(s, p).ok}
    IN  IF hits = {} THEN <<s>> ELSE split_at_and(s, Min(hits))

is_corporate(a) == startswith(a, <<"{">>) /\ endswith(a, <<"}">>)

\* re.search(r',\s*[^\W\d_]{2,}', a): a comma, whitespace, two letters
has_given_word(a) ==
    \E c \in 0 .. Len(a) - 1 :
        /\ a[c + 1] = ","
        /\ LET q == run_end(a, c + 1, SpaceChars)
           IN  q + 1 < Len(a) /\ IsAlpha(a[q + 1]) /\ IsAlpha(a[q + 2])

\* \s*[A-Z]\.(?:\s*[A-Z]\.)*$  matched from position p to the end
RECURSIVE initials_to_end(_, _)
initials_to_end(a, p) ==
    LET q == run_end(a, p, SpaceChars)
    IN  /\ q + 1 < Len(a)
        /\ IsUpper(a[q + 1])
        /\ a[q + 2] = "."
        /\ (q + 2 = Len(a) \/ initials_to_end(a, q + 2))

\* re.search(r',\s*[A-Z]\.(?:\s*[A-Z]\.)*$', a)
has_initials_tail(a) ==
    \E c \in 0 .. Len(a) - 1 : a[c + 1] = "," /\ initials_to_end(a, c + 1)

author_uses_full_given_names(author_field) ==
    LET authors == split_authors(author_field)
    IN  \E n \in DOMAIN authors :
            LET a == strip(authors[n])
            IN  /\ a # <<>>
                /\ ~is_corporate(a)
                /\ has_given_word(a)
                /\ ~has_initials_tail(a)

\* one part of the given names: a separator is kept, a word becomes its
\* first letter, uppercased, and a period; a word without a letter vanishes
initial_of(p) ==
    IF p = <<>> \/ IsSpace(p[1]) \/ p[1] = "-" THEN p
    ELSE LET letters == {k \in DOMAIN p : IsAlpha(p[k])}
         IN  IF letters = {} THEN <<>>
             ELSE upper(<<p[Min(letters)]>>) \o <<".">>

RECURSIVE initials_of_parts(_)
initials_of_parts(parts) ==
    IF parts = <<>> THEN <<>>
    ELSE initial_of(parts[1]) \o initials_of_parts(Tail(parts))

givens_to_initials(givens) ==
    replace(initials_of_parts(split_keep(strip(givens), TRUE)), <<".", ".">>, <<".">>)

\* the no-comma branch: surname = parts[-1], which raises IndexError on an
\* empty list, and the given names are the words before it
surname_last(parts) ==
    IF parts = <<>> THEN [raised |-> TRUE, value |-> <<>>]
    ELSE [raised |-> FALSE,
          value  |-> parts[Len(parts)] \o <<",", " ">>
                     \o givens_to_initials(join(<<" ">>, SubSeq(parts, 1, Len(parts) - 1)))]

\* the body of the loop of enforce_initials for one non-blank author a
fix_author(a) ==
    IF is_corporate(a) THEN [raised |-> FALSE, value |-> a]
    ELSE IF find(a, ",", 0) # -1
    THEN [raised |-> FALSE,
          value  |-> strip(Slice(a, 0, find(a, ",", 0))) \o <<",", " ">>
                     \o givens_to_initials(Slice(a, find(a, ",", 0) + 1, Len(a)))]
    ELSE surname_last(split_words(a))

\* kept_authors without the `if not a: continue` of the loop
kept_authors_all(authors) == [n \in DOMAIN authors |-> strip(authors[n])]

\* the authors the loop of enforce_initials works on: stripped, blanks skipped
kept_authors(authors) ==
    SelectSeq([n \in DOMAIN authors |-> strip(authors[n])], LAMBDA a : a # <<>>)

\* ' and '.join(fixed), unless fixing an author raised
join_fixed(fixed) ==
    IF \E n \in DOMAIN fixed : fixed[n].raised
    THEN [raised |-> TRUE, value |-> <<>>]
    ELSE [raised |-> FALSE,
          value  |-> join(<<" ","a","n","d"," ">>, [n \in DOMAIN fixed |-> fixed[n].value])]

fix_authors(authors) == join_fixed([n \in DOMAIN authors |-> fix_author(authors[n])])

enforce_initials(author_field) == fix_authors(kept_authors(split_authors(author_field)))

(***************************************************************************)
(* rebuild_entry                                                           *)
(***************************************************************************)
order_hint ==
    <<K_author, K_title, K_year, K_date, K_type, K_institution, K_organization,
      K_journaltitle, K_volume, K_number, K_pages, K_edition, K_location,
      K_publisher, K_note, K_url, K_urldate, K_addendum, K_issn, K_isbn,
      K_series, K_doi>>

\* f"{k:<12}": the name, padded with spaces on the right to 12 characters
ljust(k) == k \o [n \in 1 .. (IF Len(k) < NameWidth THEN NameWidth - Len(k) ELSE 0) |-> " "]

\* f"  {k:<12}= {{{v}}},"
field_line(k, v) == <<" ", " ">> \o ljust(k) \o <<"=", " ", "{">> \o v \o <<"}", ",">>

\* the names the first loop of rebuild_entry emits: present and not blank
hinted(F) == SelectSeq(order_hint, LAMBDA k : dict_has(F, k) /\ strip(dict_get(F, k, <<>>)) # <<>>)

\* the header line, a line for each hinted name, then a line for each other
\* item of F (the second loop: every k of F that is not in `used`)
entry_lines(etype, key, F, hint) ==
    <<<<"@">> \o capitalize(etype) \o <<"{">> \o key \o <<",">>>>
    \o [n \in DOMAIN hint |-> field_line(hint[n], dict_get(F, hint[n], <<>>))]
    \o [n \in DOMAIN SelectSeq(F, LAMBDA kv : kv[1] \notin Range(hint)) |->
           field_line(SelectSeq(F, LAMBDA kv : kv[1] \notin Range(hint))[n][1],
                      SelectSeq(F, LAMBDA kv : kv[1] \notin Range(hint))[n][2])]

\* cut_last_comma with the comma of the last line left in place
keep_last_comma(lines) == lines

\* if len(lines) > 1 and lines[-1].endswith(','): lines[-1] = lines[-1][:-1]
cut_last_comma(lines) ==
    IF Len(lines) > 1 /\ endswith(lines[Len(lines)], <<",">>)
    THEN [lines EXCEPT ![Len(lines)] = SubSeq(@, 1, Len(@) - 1)]
    ELSE lines

rebuild_entry(etype, key, F) ==
    join(<<"\n">>, Append(cut_last_comma(entry_lines(etype, key, F, hinted(F))), <<"}">>))

(***************************************************************************)
(* suggest_entry: the rules, each a step on [F, issues].                   *)
(***************************************************************************)
flag(st, msg) == [st EXCEPT !.issues = Append(@, msg)]

put(st, k, v) == [st EXCEPT !.F = dict_set(@, k, v)]

\* Trim noisy fields: for k in list(F.keys())
RECURSIVE rule_noisy(_, _)
rule_noisy(st, keys) ==
    IF keys = <<>> THEN st
    ELSE IF lower(keys[1]) = K_abstract
         THEN rule_noisy([F      |-> dict_pop(st.F, keys[1]),
                          issues |-> Append(st.issues, M_Removed \o keys[1] \o <<"'", ".">>),
                          raised |-> st.raised],
                         Tail(keys))
         ELSE rule_noisy(st, Tail(keys))

\* F['author'] = enforce_initials(F['author']), after the issue
set_initials(st, e) ==
    IF e.raised THEN [flag(st, M_Initials) EXCEPT !.raised = TRUE]
    ELSE put(flag(st, M_Initials), K_author, e.value)

rule_initials(st) ==
    IF dict_has(st.F, K_author) /\ author_uses_full_given_names(dict_get(st.F, K_author, <<>>))
    THEN set_initials(st, enforce_initials(dict_get(st.F, K_author, <<>>)))
    ELSE st

set_title(st, sc) ==
    IF sc # <<>> /\ sc # dict_get(st.F, K_title, <<>>)
    THEN put(flag(st, M_TitleCase), K_title, sc)
    ELSE st

rule_title(st, etype) ==
    IF etype \in {T_article, T_online}
    THEN set_title(st, sentence_case(dict_get(st.F, K_title, <<>>)))
    ELSE st

online_note(st) ==
    IF ~dict_has(st.F, K_note) \/ lower(strip(dict_get(st.F, K_note, <<>>))) # V_online_lc
    THEN put(flag(st, M_Note), K_note, V_Online) ELSE st

online_urldate(st) ==
    IF ~dict_has(st.F, K_urldate)
    THEN put(flag(st, M_Urldate), K_urldate, TODAY_ISO) ELSE st

online_addendum(st) ==
    IF ~dict_has(st.F, K_addendum) \/ ~contains(dict_get(st.F, K_addendum, <<>>), V_Accessed)
    THEN put(flag(st, M_Addendum), K_addendum, TODAY_ACCESSED) ELSE st

\* online_url with a value made up for the missing url
online_url_fill(st) ==
    IF ~dict_has(st.F, K_url) \/ strip(dict_get(st.F, K_url, <<>>)) = <<>>
    THEN put(flag(st, M_Url), K_url, V_ADD_open \o upper(K_url) \o <<">">>) ELSE st

online_url(st) ==
    IF ~dict_has(st.F, K_url) \/ strip(dict_get(st.F, K_url, <<>>)) = <<>>
    THEN flag(st, M_Url) ELSE st

rule_online(st, etype) ==
    IF etype \in {T_online, T_electronic}
    THEN online_url(online_addendum(online_urldate(online_note(st))))
    ELSE st

article_journaltitle(st) ==
    IF ~dict_has(st.F, K_journaltitle)
    THEN put(flag(st, M_Journaltitle), K_journaltitle, V_ADD_JOURNAL_TITLE) ELSE st

article_pages(st) ==
    IF ~dict_has(st.F, K_pages)
    THEN put(flag(st, M_Pages), K_pages, V_ADD_PAGES) ELSE st

\* article_volume left out of the rules
article_volume_skip(st) == st

article_volume(st) ==
    IF ~dict_has(st.F, K_volume) /\ ~dict_has(st.F, K_number)
    THEN put(flag(st, M_Volume), K_volume, V_ADD_VOLUME) ELSE st

rule_article(st, etype) ==
    IF etype = T_article
    THEN article_volume(article_pages(article_journaltitle(st)))
    ELSE st

\* for req in (...): if req not in F: flag and set '<ADD REQ>'
RECURSIVE require_all(_, _, _)
require_all(st, reqs, tail_msg) ==
    IF reqs = <<>> THEN st
    ELSE require_all(IF ~dict_has(st.F, reqs[1])
                     THEN put(flag(st, M_Missing \o reqs[1] \o tail_msg),
                              reqs[1], V_ADD_open \o upper(reqs[1]) \o <<">">>)
                     ELSE st,
                     Tail(reqs), tail_msg)

rule_book(st, etype) ==
    IF etype = T_book THEN require_all(st, <<K_publisher, K_location>>, M_ForBook) ELSE st

rule_thesis(st, etype) ==
    IF etype = T_thesis THEN require_all(st, <<K_type, K_institution>>, M_ForThesis) ELSE st

exclusive_date_year(st) ==
    IF dict_has(st.F, K_date) /\ dict_has(st.F, K_year) THEN flag(st, M_DateYear) ELSE st

exclusive_inst_org(st) ==
    IF dict_has(st.F, K_institution) /\ dict_has(st.F, K_organization)
    THEN flag(st, M_InstOrg) ELSE st

rule_exclusive(st) == exclusive_inst_org(exclusive_date_year(st))

\* re.fullmatch(r'\d+|[0-9]+(st|nd|rd|th)', v, flags=re.IGNORECASE)
digits_then(v, d) ==
    /\ d > 0
    /\ \/ d = Len(v)
       \/ lower(Slice(v, d, Len(v))) \in {<<"s","t">>, <<"n","d">>, <<"r","d">>, <<"t","h">>}

edition_ok(v) == digits_then(v, run_end(v, 0, Digits))

rule_edition(st) ==
    IF dict_has(st.F, K_edition) /\ ~edition_ok(dict_get(st.F, K_edition, <<>>))
    THEN flag(st, M_Edition) ELSE st

\* the rules after initials enforcement; nothing runs after a raise
\* rules_after_initials with the mutual-exclusion checks before the
\* completeness rules
rules_exclusive_first(st, etype) ==
    IF st.raised THEN st
    ELSE rule_edition(rule_thesis(rule_book(rule_article(rule_exclusive(
             rule_online(rule_title(st, etype), etype)), etype), etype), etype))

rules_after_initials(st, etype) ==
    IF st.raised THEN st
    ELSE rule_edition(rule_exclusive(rule_thesis(rule_book(rule_article(
             rule_online(rule_title(st, etype), etype), etype), etype), etype)))

\* the field mapping and the issues after all the rules
apply_rules(etype, F) ==
    rules_after_initials(
        rule_initials(rule_noisy([F |-> F, issues |-> <<>>, raised |-> FALSE],
                                 [n \in DOMAIN F |-> F[n][1]])),
        etype)

\* return rebuild_entry(etype, key, F), issues
render_result(etype, key, st) ==
    IF st.raised
    THEN [raised |-> TRUE, suggested |-> <<>>, issues |-> st.issues, F |-> st.F]
    ELSE [raised |-> FALSE, suggested |-> rebuild_entry(etype, key, st.F),
          issues |-> st.issues, F |-> st.F]

suggest_entry(etype, key, F) == render_result(etype, key, apply_rules(etype, F))

(***************************************************************************)
(* The single-record module, 2. Dissertation/References/bib_audit.py:      *)
(* parse_entry, and suggest_entry with the rendering written out in it.    *)
(* Its helpers sentence_case, author_uses_full_given_names and             *)
(* enforce_initials and its two patterns have the text of the batch        *)
(* module's, comments apart.                                               *)
(***************************************************************************)
\* ENTRY_HEAD_RE.search(text)
single_head(s, hits) ==
    IF hits = {} THEN [ok |-> FALSE, type |-> <<>>, key |-> <<>>]
    ELSE head_match_at(s, Min(hits))

\* {name.lower(): value.strip() for m in FIELD_RE.finditer(text)}: the
\* matches from position p on, each stored under its name in turn
RECURSIVE single_fields(_, _, _)
single_field(s, m, F) ==
    single_fields(s, m.end, dict_set(F, lower(m.name), strip(m.value)))

single_fields(s, p, F) ==
    LET hits == {q \in p .. Len(s) - 1 : IsLetter(s[q + 1]) /\ field_match_at(s, q).ok}
    IN  IF hits = {} THEN F ELSE single_field(s, field_match_at(s, Min(hits)), F)

single_parsed(s, m) ==
    IF m.ok
    THEN [ok |-> TRUE, etype |-> lower(m.type), key |-> strip(m.key),
          F |-> single_fields(s, 0, <<>>)]
    ELSE [ok |-> FALSE, etype |-> <<>>, key |-> <<>>, F |-> <<>>]

single_parse_entry(s) ==
    single_parsed(s, single_head(s, {p \in 0 .. Len(s) - 1 : head_match_at(s, p).ok}))

\* if <cond>: issues.append(msg)
single_flag_if(st, cond, msg) == IF cond THEN flag(st, msg) ELSE st

\* if k not in F: issues.append(msg); F[k] = v
single_missing(st, k, msg, v) ==
    IF dict_has(st.F, k) THEN st ELSE put(flag(st, msg), k, v)

\* for k in list(F.keys()): if k.lower() in ('abstract',): ...
RECURSIVE single_noisy(_, _)
single_noisy(st, keys) ==
    IF keys = <<>> THEN st
    ELSE single_noisy(IF lower(keys[1]) = K_abstract
                      THEN [st EXCEPT !.F = dict_pop(@, keys[1]),
                                      !.issues = Append(@, M_Removed \o keys[1] \o <<"'", ".">>)]
                      ELSE st,
                      Tail(keys))

single_enforced(st, e) ==
    IF e.raised THEN [flag(st, M_Initials) EXCEPT !.raised = TRUE]
    ELSE put(flag(st, M_Initials), K_author, e.value)

single_initials(st) ==
    IF dict_has(st.F, K_author) /\ author_uses_full_given_names(dict_get(st.F, K_author, <<>>))
    THEN single_enforced(st, enforce_initials(dict_get(st.F, K_author, <<>>)))
    ELSE st

single_titled(st, sc) ==
    IF sc # <<>> /\ sc # dict_get(st.F, K_title, <<>>)
    THEN put(flag(st, M_TitleCase), K_title, sc)
    ELSE st

single_title(st, etype) ==
    IF etype \in {T_article, T_online}
    THEN single_titled(st, sentence_case(dict_get(st.F, K_title, <<>>)))
    ELSE st

single_note(st) ==
    IF dict_has(st.F, K_note) /\ lower(strip(dict_get(st.F, K_note, <<>>))) = V_online_lc
    THEN st ELSE put(flag(st, M_Note), K_note, V_Online)

single_addendum(st) ==
    IF dict_has(st.F, K_addendum) /\ contains(dict_get(st.F, K_addendum, <<>>), V_Accessed)
    THEN st ELSE put(flag(st, M_Addendum), K_addendum, TODAY_ACCESSED)

single_url(st) ==
    single_flag_if(st, ~dict_has(st.F, K_url) \/ strip(dict_get(st.F, K_url, <<>>)) = <<>>, M_Url)

single_online(st, etype) ==
    IF etype \in {T_online, T_electronic}
    THEN single_url(single_addendum(
             single_missing(single_note(st), K_urldate, M_Urldate, TODAY_ISO)))
    ELSE st

single_volume(st) ==
    IF dict_has(st.F, K_number) THEN st
    ELSE single_missing(st, K_volume, M_Volume, V_ADD_VOLUME)

single_article(st, etype) ==
    IF etype = T_article
    THEN single_volume(single_missing(
             single_missing(st, K_journaltitle, M_Journaltitle, V_ADD_JOURNAL_TITLE),
             K_pages, M_Pages, V_ADD_PAGES))
    ELSE st

\* if req not in F: issues.append(f"Missing {req} for ..."); F[req] = f'<ADD {req.upper()}>'
single_required(st, req, tail_msg) ==
    single_missing(st, req, M_Missing \o req \o tail_msg, V_ADD_open \o upper(req) \o <<">">>)

single_book(st, etype) ==
    IF etype = T_book
    THEN single_required(single_required(st, K_publisher, M_ForBook), K_location, M_ForBook)
    ELSE st

single_thesis(st, etype) ==
    IF etype = T_thesis
    THEN single_required(single_required(st, K_type, M_ForThesis), K_institution, M_ForThesis)
    ELSE st

\* year vs date, institution vs organization, edition sanity: none of them
\* changes F
single_checks(st, F) ==
    single_flag_if(
        single_flag_if(
            single_flag_if(st, dict_has(F, K_date) /\ dict_has(F, K_year), M_DateYear),
            dict_has(F, K_institution) /\ dict_has(F, K_organization), M_InstOrg),
        dict_has(F, K_edition) /\ ~edition_ok(dict_get(F, K_edition, <<>>)), M_Edition)

single_completed(st, etype) ==
    single_thesis(single_book(single_article(single_online(st, etype), etype), etype), etype)

single_checked(st) == single_checks(st, st.F)

single_rules(st, etype) ==
    IF st.raised THEN st
    ELSE single_checked(single_completed(single_title(st, etype), etype))

\* lines.append(f"  {k:<12}= {{{F[k]}}},")
single_line(k, v) == <<" ", " ">> \o ljust(k) \o <<"=", " ", "{">> \o v \o <<"}", ",">>

\* for k in order_hint: if k in F and F[k] is not None and str(F[k]).strip()
RECURSIVE single_hinted(_, _, _)
single_hinted(F, ks, out) ==
    IF ks = <<>> THEN out
    ELSE single_hinted(F, Tail(ks),
                       IF dict_has(F, ks[1]) /\ strip(dict_get(F, ks[1], <<>>)) # <<>>
                       THEN [lines |-> Append(out.lines, single_line(ks[1], dict_get(F, ks[1], <<>>))),
                             used  |-> out.used \cup {ks[1]}]
                       ELSE out)

\* for k, v in F.items(): if k not in used
RECURSIVE single_others(_, _)
single_others(items, out) ==
    IF items = <<>> THEN out.lines
    ELSE single_others(Tail(items),
                       IF items[1][1] \in out.used THEN out
                       ELSE [out EXCEPT !.lines = Append(@, single_line(items[1][1], items[1][2]))])

\* if len(lines) > 1 and lines[-1].endswith(','): lines[-1] = lines[-1][:-1]
\* lines.append("}")
single_closed(lines) ==
    (IF Len(lines) > 1 /\ lines[Len(lines)][Len(lines[Len(lines)])] = ","
     THEN SubSeq(lines, 1, Len(lines) - 1)
          \o <<SubSeq(lines[Len(lines)], 1, Len(lines[Len(lines)]) - 1)>>
     ELSE lines) \o <<<<"}">>>>

single_suggested(etype, key, F) ==
    join(<<"\n">>,
         single_closed(single_others(F,
             single_hinted(F, order_hint,
                 [lines |-> <<<<"@">> \o capitalize(etype) \o <<"{">> \o key \o <<",">>>>,
                  used  |-> {}]))))

single_result(etype, key, st) ==
    [raised    |-> st.raised,
     suggested |-> IF st.raised THEN <<>> ELSE single_suggested(etype, key, st.F),
     issues    |-> st.issues,
     F         |-> st.F]

single_suggest_entry(etype, key, F) ==
    single_result(etype, key,
        single_rules(
            single_initials(single_noisy([F |-> F, issues |-> <<>>, raised |-> FALSE],
                                         [n \in DOMAIN F |-> F[n][1]])),
            etype))

(***************************************************************************)
(* audit_all: the body of the for loop for one chunk.                      *)
(***************************************************************************)
\* the three report lines of the except branch
error_lines(raw_stripped, msg) ==
    <<M_ParseError \o msg,
      M_Snippet,
      <<" ", " ">> \o replace(SubSeq(raw_stripped, 1, IF Len(raw_stripped) < SnippetMax
                                                     THEN Len(raw_stripped) ELSE SnippetMax),
                              <<"\n">>, <<" ">>)
                   \o (IF Len(raw_stripped) > SnippetMax THEN <<".", ".", ".">> ELSE <<>>)>>

\* the report lines of the try branch
record_lines(etype, key, issues) ==
    LET hdr == <<"[">> \o key \o <<"]", " ", "@">> \o etype
    IN  IF issues # <<>>
        THEN <<hdr>> \o [n \in DOMAIN issues |-> <<" ", " ", "-", " ">> \o issues[n]]
        ELSE <<hdr \o M_OK>>

\* what one iteration appends to cleaned_chunks and to report_lines
audit_suggested(raw_stripped, p, s) ==
    IF s.raised
    THEN [kind |-> "error", chunks |-> <<raw_stripped>>,
          lines |-> error_lines(raw_stripped, M_IndexError)]
    ELSE [kind |-> "record", chunks |-> <<s.suggested>>,
          lines |-> record_lines(p.etype, p.key, s.issues)]

\* audit_parsed with the chunk dropped on a parse error
audit_parsed_drop(raw_stripped, p) ==
    IF ~p.ok
    THEN [kind |-> "error", chunks |-> <<>>,
          lines |-> error_lines(raw_stripped, M_NoHeader)]
    ELSE audit_suggested(raw_stripped, p, suggest_entry(p.etype, p.key, p.F))

audit_parsed(raw_stripped, p) ==
    IF ~p.ok
    THEN [kind |-> "error", chunks |-> <<raw_stripped>>,
          lines |-> error_lines(raw_stripped, M_NoHeader)]
    ELSE audit_suggested(raw_stripped, p, suggest_entry(p.etype, p.key, p.F))

audit_stripped(raw_stripped) ==
    IF raw_stripped = <<>>
    THEN [kind |-> "skip", chunks |-> <<>>, lines |-> <<>>]
    ELSE audit_parsed(raw_stripped, parse_entry(raw_stripped))

audit_chunk(raw) == audit_stripped(strip(raw))

(***************************************************************************)
(* Input documents: concatenations of at most MaxFrags fragments.          *)
(***************************************************************************)
LONG == [n \in 1 .. SnippetMax + 1 |-> IF n = 1 THEN "@" ELSE IF n = 2 THEN "{" ELSE "."]

Frags == {REC_MIN, <<"@">>, <<"{">>, <<"}">>, <<"\n">>, <<"%">>, <<" ">>,
          COMMENT_LINE, NOTBIB}

RECURSIVE Concats(_, _)
Concats(parts, n) ==
    IF n = 0 THEN {<<>>}
    ELSE LET shorter == Concats(parts, n - 1)
         IN  shorter \cup {s \o f : s \in shorter, f \in parts}

\* a few documents with a chunk longer than the snippet limit
LongDocs == {LONG, LONG \o <<"}">>, REC_MIN \o LONG, LONG \o <<"}">> \o REC_MIN}

Docs == Concats(Frags, MaxFrags) \cup LongDocs

NoRecord == [ok |-> FALSE, etype |-> <<>>, key |-> <<>>, F |-> <<>>]

NoResult == [raised |-> FALSE, suggested |-> <<>>, issues |-> <<>>, F |-> <<>>]

(***************************************************************************)
(* The batch run: audit_all(bib_text).                                     *)
(***************************************************************************)
Init ==
    /\ bib_text \in Docs
    /\ pc = "split"
    /\ i = 0
    /\ entries = <<>>
    /\ idx = 0
    /\ cleaned_chunks = <<>>
    /\ report_lines = <<>>
    /\ cleaned_bib = <<>>
    /\ report_text = <<>>
    /\ text = <<>>
    /\ parsed = NoRecord
    /\ result = NoResult
    /\ pass = 0
    /\ first = NoResult

\* the effect of one iteration `it` of the loop of split_entries
SplitApply(it) ==
    /\ i' = it.i
    /\ entries' = entries \o it.emit
    /\ pc' = IF it.more THEN "split" ELSE "audit"
    /\ UNCHANGED <<bib_text, idx, cleaned_chunks, report_lines, cleaned_bib, report_text>>
    /\ UNCHANGED record_vars

SplitKind(it, kind) ==
    /\ it.kind = kind
    /\ SplitApply(it)

\* no '@' from position i on: break
SplitNoAt ==
    /\ pc = "split"
    /\ i < Len(bib_text)
    /\ SplitKind(split_iteration(bib_text, i), "no_at")

\* the '@' is on a comment line: continue after it
SplitComment ==
    /\ pc = "split"
    /\ i < Len(bib_text)
    /\ SplitKind(split_iteration(bib_text, i), "comment")

\* no '{' after the '@': break
SplitNoBrace ==
    /\ pc = "split"
    /\ i < Len(bib_text)
    /\ SplitKind(split_iteration(bib_text, i), "no_brace")

\* the braces balance: emit the chunk, go on after its closing brace
SplitChunk ==
    /\ pc = "split"
    /\ i < Len(bib_text)
    /\ SplitKind(split_iteration(bib_text, i), "chunk")

\* the braces never balance: emit the tail, break
SplitTail ==
    /\ pc = "split"
    /\ i < Len(bib_text)
    /\ SplitKind(split_iteration(bib_text, i), "tail")

\* the loop condition i < n fails
SplitEnd ==
    /\ pc = "split"
    /\ i >= Len(bib_text)
    /\ pc' = "audit"
    /\ UNCHANGED batch_vars
    /\ UNCHANGED record_vars

\* the effect of one iteration of the for loop with outcome a
AuditApply(a, kinds) ==
    /\ a.kind \in kinds
    /\ cleaned_chunks' = cleaned_chunks \o a.chunks
    /\ report_lines' = report_lines \o a.lines
    /\ idx' = idx + 1
    /\ UNCHANGED <<bib_text, pc, i, entries, cleaned_bib, report_text>>
    /\ UNCHANGED record_vars

\* the try branch (or the blank-chunk continue)
AuditRecord ==
    /\ pc = "audit"
    /\ idx < Len(entries)
    /\ AuditApply(audit_chunk(entries[idx + 1]), {"record", "skip"})

\* the except branch
AuditRecover ==
    /\ pc = "audit"
    /\ idx < Len(entries)
    /\ AuditApply(audit_chunk(entries[idx + 1]), {"error"})

AuditJoin ==
    /\ pc = "audit"
    /\ idx = Len(entries)
    /\ cleaned_bib' = join(<<"\n", "\n">>, cleaned_chunks) \o <<"\n">>
    /\ report_text' = join(<<"\n">>, report_lines) \o <<"\n">>
    /\ pc' = "done"
    /\ UNCHANGED <<bib_text, i, entries, idx, cleaned_chunks, report_lines>>
    /\ UNCHANGED record_vars

Next ==
    \/ SplitNoAt
    \/ SplitComment
    \/ SplitNoBrace
    \/ SplitChunk
    \/ SplitTail
    \/ SplitEnd
    \/ AuditRecord
    \/ AuditRecover
    \/ AuditJoin

Spec == Init /\ [][Next]_vars

\* the while loop of split_entries: one iteration, or the exit when the
\* condition i < n fails
SplitLoop ==
    /\ pc = "split"
    /\ IF i < Len(bib_text)
       THEN \E it \in {split_iteration(bib_text, i)} : SplitApply(it)
       ELSE SplitEnd

\* the loop is sequential code: it goes on as long as it has a step to take
SpecLive == Spec /\ WF_vars(SplitLoop)

(***************************************************************************)
(* One record through parse_entry and suggest_entry, then the rendered     *)
(* text through both again (the re-audit), as audit_all and the            *)
(* single-record caller run them:                                          *)
(*     etype, key, F = parse_entry(text)                                   *)
(*     suggested, issues = suggest_entry(etype, key, F.copy())             *)
(***************************************************************************)
P_nested ==
    <<" ","T","i","t","l","e"," ","="," ","{"," ","A"," ","{","B","}"," ","C","}",",">>

RecordParts == {P_book, P_article, P_blank_key, P_brace_key, P_junk,
                P_author_two, P_author_one, P_title, P_year, P_close, P_nested}

\* the record of Scenario A
SCENARIO_A == P_article \o P_author_one \o P_title \o P_year \o P_close

RecordTexts == Concats(RecordParts, MaxParts) \cup {SCENARIO_A}

BatchIdle ==
    /\ bib_text = <<>>
    /\ i = 0
    /\ entries = <<>>
    /\ idx = 0
    /\ cleaned_chunks = <<>>
    /\ report_lines = <<>>
    /\ cleaned_bib = <<>>
    /\ report_text = <<>>

InitRecord ==
    /\ BatchIdle
    /\ pc = "parse"
    /\ text \in RecordTexts
    /\ parsed = NoRecord
    /\ result = NoResult
    /\ pass = 1
    /\ first = NoResult

ParseApply(p, ok) ==
    /\ p.ok = ok
    /\ parsed' = p
    /\ pc' = IF ok THEN "suggest" ELSE "raised"
    /\ UNCHANGED <<text, result, pass, first>>
    /\ UNCHANGED batch_vars

\* parse_entry returns
ParseEntry ==
    /\ pc = "parse"
    /\ ParseApply(parse_entry(text), TRUE)

\* parse_entry raises ValueError
ParseRaise ==
    /\ pc = "parse"
    /\ ParseApply(parse_entry(text), FALSE)

SuggestApply(s) ==
    /\ result' = s
    /\ pc' = IF s.raised THEN "raised" ELSE "rendered"
    /\ UNCHANGED <<text, parsed, pass, first>>
    /\ UNCHANGED batch_vars

SuggestEntry ==
    /\ pc = "suggest"
    /\ SuggestApply(suggest_entry(parsed.etype, parsed.key, parsed.F))

\* the rendered record is audited again
Reaudit ==
    /\ pc = "rendered"
    /\ pass = 1
    /\ first' = result
    /\ text' = result.suggested
    /\ pass' = 2
    /\ pc' = "parse"
    /\ UNCHANGED <<parsed, result>>
    /\ UNCHANGED batch_vars

NextRecord ==
    \/ ParseEntry
    \/ ParseRaise
    \/ SuggestEntry
    \/ Reaudit

SpecRecord == InitRecord /\ [][NextRecord]_vars

(***************************************************************************)
(* suggest_entry called on a record that did not come from parse_entry:    *)
(* any type, key and mapping of strings.                                   *)
(***************************************************************************)
Types == {T_article, T_online, T_electronic, T_book, T_thesis, T_misc, <<>>}

AuthorParts == {A_doe_john, A_and, A_smith, A_corp, A_doe_j, A_jean_luc, A_three, <<" ">>}

AuthorTexts == Concats(AuthorParts, MaxAuthorParts)

V_online_pad ==
    <<" ","[","o","n","l","i","n","e","]">>

\* an online record that lacks nothing
ONLINE_FULL ==
    <<<<K_note, V_online_uc>>, <<K_url, V_url>>, <<K_urldate, V_x>>, <<K_addendum, V_acc>>>>

\* the items a mapping of a record of the given type is built from
CommonItems ==
    {<<K_abstract, V_x>>, <<K_zz, <<>>>>, <<K_year, V_x>>, <<K_date, V_x>>}

ItemsFor(etype) ==
    CommonItems \cup
    (IF etype = T_article
     THEN {<<K_title, V_title_a>>, <<K_title, V_title_b>>, <<K_journaltitle, V_x>>,
           <<K_pages, V_x>>, <<K_volume, V_x>>, <<K_number, V_x>>}
     ELSE IF etype \in {T_online, T_electronic}
     THEN {<<K_title, V_title_a>>, <<K_note, V_online_uc>>, <<K_note, <<>>>>,
           <<K_note, V_online_pad>>,
           <<K_url, V_url>>, <<K_url, <<" ">>>>, <<K_urldate, V_x>>,
           <<K_addendum, V_acc>>, <<K_addendum, V_x>>}
     ELSE IF etype = T_book
     THEN {<<K_publisher, V_x>>, <<K_location, <<>>>>, <<K_edition, V_3rd>>,
           <<K_edition, V_third>>, <<K_author, A_doe_john>>}
     ELSE IF etype = T_thesis
     THEN {<<K_type, V_x>>, <<K_institution, V_x>>, <<K_organization, V_x>>,
           <<K_author, <<>>>>}
     ELSE {<<K_Abstract_uc, V_x>>, <<K_zz, V_x>>, <<K_edition, <<>>>>,
           <<K_title, <<" ">>>>, <<K_organization, V_x>>, <<K_institution, V_x>>})

\* the mappings of at most n items: no name twice
RECURSIVE Mappings(_, _)
Mappings(items, n) ==
    IF n = 0 THEN {<<>>}
    ELSE LET shorter == Mappings(items, n - 1)
         IN  shorter \cup {Append(F, kv) : F \in shorter, kv \in items}

NoRepeat(F) == \A m, n \in DOMAIN F : F[m][1] = F[n][1] => m = n

DirectRecords ==
    {[ok |-> TRUE, etype |-> etype, key |-> <<"k">>, F |-> <<<<K_author, a>>>>] :
         etype \in {T_book, T_article}, a \in AuthorTexts}
    \cup UNION {{[ok |-> TRUE, etype |-> etype, key |-> <<"k">>, F |-> F] :
                    F \in {G \in Mappings(ItemsFor(etype), MaxFields) : NoRepeat(G)}} :
                etype \in Types}
    \cup {[ok |-> TRUE, etype |-> etype, key |-> <<"k">>, F |-> ONLINE_FULL] :
              etype \in {T_online, T_electronic}}

InitRules ==
    /\ BatchIdle
    /\ pc = "suggest"
    /\ text = <<>>
    /\ parsed \in DirectRecords
    /\ result = NoResult
    /\ pass = 1
    /\ first = NoResult

SpecRules == InitRules /\ [][NextRecord]_vars

(***************************************************************************)
(* Both modules on the same input: a record text, or a type, key and       *)
(* mapping passed to suggest_entry directly.                               *)
(***************************************************************************)
InitModules == InitRecord \/ InitRules

SpecModules == InitModules /\ [][NextRecord]_vars

(***************************************************************************)
(* sentence_case applied to a title, and again to its own result.          *)
(***************************************************************************)
MaxTitleParts == 4

TP_foo ==
    <<"F","o","o",":"," ">>

TP_a ==
    <<"A"," ">>

TP_bar ==
    <<"B","a","r">>

TP_study ==
    <<"S","t","u","d","y",":"," ">>

TP_methods ==
    <<"M","e","t","h","o","d","s"," ">>

TP_and ==
    <<"A","n","d"," ">>

TP_results ==
    <<"R","e","s","u","l","t","s">>

TP_long ==
    <<"A","B","C","D","E","F"," ">>

TP_sharp ==
    <<"U+00DF","a"," ">>

TP_colon ==
    <<"x",":","y"," ",":">>

TITLE_FOO ==
    <<"F","o","o",":"," ","A"," ","B","a","r">>

TITLE_FOO_OUT ==
    <<"F","o","o",":"," ","A"," ","b","a","r">>

TITLE_STUDY ==
    <<"S","t","u","d","y",":"," ","M","e","t","h","o","d","s"," ","A","n","d"," ","R","e","s","u","l","t","s">>

TITLE_STUDY_OUT ==
    <<"S","t","u","d","y",":"," ","M","e","t","h","o","d","s"," ","a","n","d"," ","r","e","s","u","l","t","s">>

TitleParts == {TP_foo, TP_a, TP_bar, TP_study, TP_methods, TP_and, TP_results,
               TP_long, TP_sharp, TP_colon, <<" ">>}

Titles == Concats(TitleParts, MaxTitleParts)

InitTitle ==
    /\ BatchIdle
    /\ pc = "title"
    /\ text \in Titles
    /\ parsed = NoRecord
    /\ result = NoResult
    /\ pass = 0
    /\ first = NoResult

\* text = sentence_case(text)
SentenceCase ==
    /\ pc = "title"
    /\ pass < 2
    /\ text' = sentence_case(text)
    /\ pass' = pass + 1
    /\ UNCHANGED <<pc, parsed, result, first>>
    /\ UNCHANGED batch_vars

NextTitle == SentenceCase

SpecTitle == InitTitle /\ [][NextTitle]_vars

(***************************************************************************)
(* Properties of the batch run (Spec).                                     *)
(***************************************************************************)
\* the chunks the for loop has consumed so far on which the try block raised
Raised(k) == audit_chunk(entries[k]).kind = "error"

\* the lines of a text that ends every line with "\n"
RECURSIVE lines_of(_)
lines_rest(s, nl) ==
    IF nl = -1 THEN (IF s = <<>> THEN <<>> ELSE <<s>>)
    ELSE <<Slice(s, 0, nl)>> \o lines_of(Slice(s, nl + 1, Len(s)))

lines_of(s) == lines_rest(s, find(s, "\n", 0))

\* number of `[?] Parse error` lines of a report
ParseErrorLines(lines) ==
    Cardinality({n \in DOMAIN lines : startswith(lines[n], SubSeq(M_ParseError, 1, 15))})

\* C2: no data loss in audit_all. The chunks the for loop works on are the
\* chunks split_entries returns; every chunk consumed has put exactly one
\* block into cleaned_chunks, and the loop consumes every chunk before the
\* blocks are joined.
C2_NoDataLoss ==
    /\ pc \in {"audit", "done"} => /\ entries = split_entries(bib_text)
                                   /\ Len(cleaned_chunks) = idx
    /\ pc = "done" => Len(cleaned_chunks) = Len(split_entries(bib_text))

\* a finished run over at least two chunks, one passed through after a parse
\* error and one rendered
C2_Witness ==
    /\ pc = "done"
    /\ Len(entries) >= 2
    /\ \E m, n \in 1 .. Len(entries) : Raised(m) /\ ~Raised(n)

\* C3: Scenario C. On the text `not a bibtex entry at all` the cleaned
\* output is the text, unchanged, and the report has exactly one
\* `[?] Parse error` line.
C3_ScenarioC ==
    (pc = "done" /\ bib_text = NOTBIB) =>
        /\ cleaned_bib = NOTBIB
        /\ ParseErrorLines(lines_of(report_text)) = 1

\* C4: per-record recovery. For every consumed chunk on which the try block
\* raised, (i) the block in the cleaned output is the chunk as the splitter
\* yielded it, character for character, (ii) the report has one
\* `[?] Parse error` entry per such chunk, whose snippet holds at most 200
\* characters of the chunk, and (iii) the loop goes on to the end.
C4_Recovery ==
    pc \in {"audit", "done"} =>
        /\ \A k \in 1 .. idx : Raised(k) => cleaned_chunks[k] = entries[k]
        /\ ParseErrorLines(report_lines) = Cardinality({k \in 1 .. idx : Raised(k)})
        /\ \A n \in DOMAIN report_lines :
               (n > 2 /\ startswith(report_lines[n - 2], SubSeq(M_ParseError, 1, 15)))
                   => Len(report_lines[n]) <= 2 + SnippetMax + 3
        /\ pc = "done" => idx = Len(entries)

\* the '@' the scan of split_entries is about to reach
NextAt == find(bib_text, "@", i)

\* position p is on a comment line: the first character of its line that is
\* not whitespace is '%'
OnCommentLine(s, p) ==
    startswith(lstrip(Slice(s, rfind(s, "\n", 0, p) + 1, Len(s))), <<"%">>)

\* C5: no trailing data is lost. Every '@' the scan reaches outside a
\* comment line starts an emitted chunk; when the braces after it never
\* balance the chunk is the whole tail from the '@', and the scan stops.
C5_NoTrailingLoss ==
    [][(pc = "split" /\ i < Len(bib_text) /\ NextAt # -1
            /\ ~OnCommentLine(bib_text, NextAt))
        => /\ Len(entries') = Len(entries) + 1
           /\ startswith(Slice(bib_text, NextAt, Len(bib_text)), entries'[Len(entries')])
           /\ (entries'[Len(entries')] # Slice(bib_text, NextAt, Len(bib_text))
                   => endswith(entries'[Len(entries')], <<"}">>) /\ pc' = "split")]_vars

ScenarioD == REC_MIN \o COMMENT_LINE \o REC_MIN

\* C6: comment skipping. No emitted chunk starts at an '@' on a comment
\* line, whichever line that is, the first included; and two records
\* separated by a comment line yield exactly two chunks.
C6_CommentSkip ==
    [][/\ (pc = "split" /\ entries' # entries) => ~OnCommentLine(bib_text, NextAt)
       /\ (pc = "split" /\ pc' = "audit" /\ bib_text = ScenarioD) => Len(entries') = 2]_vars

(***************************************************************************)
(* Properties of one record (SpecRecord, SpecRules).                       *)
(***************************************************************************)
\* the header pattern  @\w+\s*\{\s*[^,]+\s*,  matches somewhere in s: an
\* '@', one or more word characters, whitespace, a '{', then at least one
\* character other than ',' and a ','
HasHeader(s) ==
    \E p, b \in 1 .. Len(s) :
        /\ s[p] = "@"
        /\ s[b] = "{"
        /\ p + 1 < b
        /\ \E w \in p + 1 .. b - 1 :
               /\ \A m \in p + 1 .. w : s[m] \in WordChars
               /\ \A m \in w + 1 .. b - 1 : s[m] \in SpaceChars
        /\ \E c \in b + 2 .. Len(s) :
               /\ s[c] = ","
               /\ \A m \in b + 1 .. c - 1 : s[m] # ","

\* parse_entry has just returned or raised on `text`
ParseDone == pc = "suggest" \/ (pc = "raised" /\ ~parsed.ok)

\* C7 as stated: parse_entry succeeds only on a chunk that has the header
\* at its start; a header that occurs only later does not make it succeed.
C7_HeaderAtStart ==
    (ParseDone /\ text # <<>>) => (parsed.ok <=> head_match_at(text, 0).ok)

\* C7 amended: parse_entry raises the malformed-header error exactly when
\* the header pattern matches nowhere in the chunk; a header that occurs
\* only later in the chunk makes the parse succeed.
C7_HeaderAnywhere ==
    (ParseDone /\ text # <<>>) => (parsed.ok <=> HasHeader(text))

\* a parse that succeeded on a text whose header is not at the start
C7_Witness ==
    /\ pc = "suggest"
    /\ text # <<>>
    /\ parsed.ok
    /\ text[1] # "@"

\* C8: record invariant. Whenever parse_entry returns, the type and the
\* trimmed key are both non-empty.
C8_RecordInvariant ==
    (pc = "suggest" /\ text # <<>>) => (parsed.etype # <<>> /\ parsed.key # <<>>)

\* C1: idempotence. Auditing the rendered record again parses and renders
\* the same text, character for character.
C1_Idempotent ==
    /\ (pc = "rendered" /\ pass = 2) => result.suggested = first.suggested
    /\ (pc = "raised" /\ pass = 2) => parsed.ok

\* the fields a rule of suggest_entry requires of a record
Required(etype, F) ==
    IF etype = T_article
    THEN {K_journaltitle, K_pages}
         \cup (IF dict_has(F, K_number) THEN {} ELSE {K_volume})
    ELSE IF etype = T_book THEN {K_publisher, K_location}
    ELSE IF etype = T_thesis THEN {K_type, K_institution}
    ELSE {}

RECURSIVE IsInitials(_)
IsInitials(s) ==
    /\ Len(s) >= 2
    /\ s[1] \in UpperChars
    /\ s[2] = "."
    /\ \/ Len(s) = 2
       \/ IsInitials(SubSeq(s, 3, Len(s)))
       \/ s[3] \in {" ", "-"} /\ IsInitials(SubSeq(s, 4, Len(s)))

\* `Surname, X.`, `Surname, X.-Y.` or a multi-initial variant
InitialsForm(a) ==
    \E c \in 2 .. Len(a) - 3 :
        /\ a[c] = ","
        /\ \A m \in 1 .. c - 1 : a[m] # ","
        /\ a[c + 1] = " "
        /\ IsInitials(SubSeq(a, c + 2, Len(a)))

\* C10: initials invariant. When enforcement fired, every author of the
\* rewritten field that is not a corporate author has the form above.
C10_InitialsForm ==
    (pc = "rendered" /\ \E n \in DOMAIN result.issues : result.issues[n] = M_Initials) =>
        \A a \in Range(kept_authors(split_authors(dict_get(result.F, K_author, <<>>)))) :
            is_corporate(a) \/ InitialsForm(a)

(***************************************************************************)
(* Properties of sentence_case (SpecTitle).                                *)
(***************************************************************************)
\* C11: sentence-case idempotence. Applying sentence_case to a title that
\* is itself a result of sentence_case changes nothing.
C11_SentenceCaseIdempotent ==
    [][(pc = "title" /\ pass = 1) => text' = text]_vars

\* token n of a title follows, across one run of whitespace, a token that
\* ends in ':', and is not the first token
AfterColon(tokens, n) ==
    /\ n > 2
    /\ tokens[n] # <<>>
    /\ ~isspace(tokens[n])
    /\ isspace(tokens[n - 1])
    /\ endswith(tokens[n - 2], <<":">>)

\* C16: the colon rule. A token after a token ending in ':' comes out with
\* its first letter uppercase and the rest lowercase, unless it is an
\* all-uppercase token of at most 5 characters; `Foo: A Bar` becomes
\* `Foo: A bar` and `Study: Methods And Results` becomes
\* `Study: Methods and results`.
C16_ColonRule ==
    [][(pc = "title" /\ pass = 0) =>
        /\ \A n \in DOMAIN split_keep(text, FALSE) :
               (AfterColon(split_keep(text, FALSE), n)
                    /\ ~(isupper(split_keep(text, FALSE)[n])
                            /\ Len(split_keep(text, FALSE)[n]) <= 5))
               => /\ n \in DOMAIN split_keep(text', FALSE)
                  /\ split_keep(text', FALSE)[n]
                         = <<upper_char(split_keep(text, FALSE)[n][1])>>
                           \o lower(Tail(split_keep(text, FALSE)[n]))
        /\ text = TITLE_FOO => text' = TITLE_FOO_OUT
        /\ text = TITLE_STUDY => text' = TITLE_STUDY_OUT]_vars

(***************************************************************************)
(* Further properties of one record (SpecRecord, SpecRules).               *)
(***************************************************************************)
V_title_a_sc ==
    <<"A"," ","s","t","u","d","y"," ","o","f"," ","t","h","i","n","g","s">>

\* the first audit of the record of Scenario A has returned
ScenarioA_Audited == pc = "rendered" /\ pass = 1 /\ text = SCENARIO_A

\* a placeholder value: <ADD ...>
IsPlaceholder(v) == startswith(v, V_ADD_open) /\ endswith(v, <<">">>)

\* the cleaned record of Scenario A: author in initials, title in sentence
\* case, placeholders for journaltitle, pages and volume
ScenarioA_Cleaned ==
    /\ dict_get(result.F, K_author, <<>>) = A_doe_j
    /\ dict_get(result.F, K_title, <<>>) = V_title_a_sc
    /\ IsPlaceholder(dict_get(result.F, K_journaltitle, <<>>))
    /\ IsPlaceholder(dict_get(result.F, K_pages, <<>>))
    /\ IsPlaceholder(dict_get(result.F, K_volume, <<>>))
    /\ \A k \in {K_author, K_title, K_journaltitle, K_pages, K_volume} :
           contains(result.suggested, field_line(k, dict_get(result.F, k, <<>>)))
              \/ endswith(result.suggested,
                          <<" ", " ">> \o ljust(k) \o <<"=", " ", "{">>
                              \o dict_get(result.F, k, <<>>) \o <<"}", "\n", "}">>)

\* C12 as stated: Scenario A gives the cleaned record above and a report
\* of four corrections for the record.
C12_ScenarioA_Four ==
    ScenarioA_Audited => (ScenarioA_Cleaned /\ Len(result.issues) = 4)

\* C12 amended: Scenario A gives the cleaned record above and a report of
\* five issues: initials, title case, journaltitle, pages, volume.
C12_ScenarioA_Five ==
    ScenarioA_Audited =>
        /\ ScenarioA_Cleaned
        /\ result.issues = <<M_Initials, M_TitleCase, M_Journaltitle, M_Pages, M_Volume>>

C12_Witness == ScenarioA_Audited /\ Len(result.issues) = 5

\* how many issues of a result are the message msg
IssueCount(issues, msg) == Cardinality({n \in DOMAIN issues : issues[n] = msg})

\* suggest_entry has returned on a record of type online or electronic
OnlineSuggested == pc = "rendered" /\ parsed.etype \in {T_online, T_electronic}

\* the fields the online rule has to set or overwrite
NoteWrong ==
    ~dict_has(parsed.F, K_note) \/ lower(strip(dict_get(parsed.F, K_note, <<>>))) # V_online_lc

AddendumWrong ==
    ~dict_has(parsed.F, K_addendum)
        \/ ~contains(dict_get(parsed.F, K_addendum, <<>>), V_Accessed)

UrlMissing ==
    ~dict_has(parsed.F, K_url) \/ strip(dict_get(parsed.F, K_url, <<>>)) = <<>>

\* C13: online-source completeness. After suggest_entry on a record of
\* type online or electronic, note is [Online] up to letter case, urldate
\* is present, addendum is present and contains Accessed; a field that had
\* to be set or overwritten has one issue and a field that was in order is
\* left as it was, with no issue; a missing or blank url has one issue and
\* the url field is as it was: no value is made up.
C13_OnlineComplete ==
    OnlineSuggested =>
        /\ lower(strip(dict_get(result.F, K_note, <<>>))) = V_online_lc
        /\ dict_has(result.F, K_urldate)
        /\ dict_has(result.F, K_addendum)
        /\ contains(dict_get(result.F, K_addendum, <<>>), V_Accessed)
        /\ IssueCount(result.issues, M_Note) = (IF NoteWrong THEN 1 ELSE 0)
        /\ dict_get(result.F, K_note, <<>>)
               = (IF NoteWrong THEN V_Online ELSE dict_get(parsed.F, K_note, <<>>))
        /\ IssueCount(result.issues, M_Urldate)
               = (IF dict_has(parsed.F, K_urldate) THEN 0 ELSE 1)
        /\ dict_get(result.F, K_urldate, <<>>)
               = (IF dict_has(parsed.F, K_urldate) THEN dict_get(parsed.F, K_urldate, <<>>)
                  ELSE TODAY_ISO)
        /\ IssueCount(result.issues, M_Addendum) = (IF AddendumWrong THEN 1 ELSE 0)
        /\ dict_get(result.F, K_addendum, <<>>)
               = (IF AddendumWrong THEN TODAY_ACCESSED
                  ELSE dict_get(parsed.F, K_addendum, <<>>))
        /\ IssueCount(result.issues, M_Url) = (IF UrlMissing THEN 1 ELSE 0)
        /\ dict_has(result.F, K_url) = dict_has(parsed.F, K_url)
        /\ dict_get(result.F, K_url, <<>>) = dict_get(parsed.F, K_url, <<>>)

\* an online record without url whose note had to be overwritten
C13_Witness ==
    /\ OnlineSuggested
    /\ pass = 1
    /\ ~dict_has(parsed.F, K_url)
    /\ dict_has(parsed.F, K_note)
    /\ NoteWrong
    /\ IssueCount(result.issues, M_Url) = 1

\* C14: placeholder policy. After suggest_entry every required field that
\* was missing holds <ADD FIELDNAME>, FIELDNAME being the name of the field
\* in uppercase, and has exactly one issue; a required field that was
\* present is left as it was.
C14_PlaceholderPolicy ==
    pc = "rendered" =>
        \A k \in Required(parsed.etype, parsed.F) \cup
                  (IF parsed.etype = T_article THEN {K_volume} ELSE {}) :
            IF dict_has(parsed.F, k)
            THEN dict_get(result.F, k, <<>>) = dict_get(parsed.F, k, <<>>)
            ELSE k \in Required(parsed.etype, parsed.F) =>
                     /\ dict_get(result.F, k, <<>>) = V_ADD_open \o upper(k) \o <<">">>
                     /\ Cardinality({n \in DOMAIN result.issues :
                                         startswith(result.issues[n], M_Missing \o k)}) = 1

\* the names of the fields of F that are present and not blank: those of
\* the preferred list in its order, then the others in mapping order
NonBlankNames(F) ==
    SelectSeq(order_hint, LAMBDA k : dict_has(F, k) /\ strip(dict_get(F, k, <<>>)) # <<>>)
    \o SelectSeq([n \in DOMAIN F |-> F[n][1]],
                 LAMBDA k : k \notin Range(order_hint) /\ strip(dict_get(F, k, <<>>)) # <<>>)

\* one line per name, the last one without the trailing comma
FieldLines(F, names) ==
    [n \in DOMAIN names |->
        <<" ", " ">> \o ljust(names[n]) \o <<"=", " ", "{">> \o dict_get(F, names[n], <<>>)
            \o (IF n < Len(names) THEN <<"}", ",">> ELSE <<"}">>)]

\* C15: serializer output. The rendered text is the header `@Type{key,`
\* with the type capitalized, one line for each field that is present and
\* not blank and none for a blank field, preferred names first in the
\* preferred order and the others after them in mapping order, the last
\* field line without trailing comma, and a closing `}`.
C15_SerializerOutput ==
    pc = "rendered" =>
        lines_of(result.suggested)
            = <<<<"@">> \o capitalize(parsed.etype) \o <<"{">> \o parsed.key \o <<",">>>>
              \o FieldLines(result.F, NonBlankNames(result.F))
              \o <<<<"}">>>>

\* the number, 1 to 9, of the rule an issue comes from
RuleOf(msg) ==
    IF startswith(msg, M_Removed) THEN 1
    ELSE IF msg = M_Initials THEN 2
    ELSE IF msg = M_TitleCase THEN 3
    ELSE IF msg \in {M_Note, M_Urldate, M_Addendum, M_Url} THEN 4
    ELSE IF msg \in {M_Journaltitle, M_Pages, M_Volume} THEN 5
    ELSE IF startswith(msg, M_Missing) /\ endswith(msg, M_ForBook) THEN 6
    ELSE IF startswith(msg, M_Missing) /\ endswith(msg, M_ForThesis) THEN 7
    ELSE IF msg \in {M_DateYear, M_InstOrg} THEN 8
    ELSE IF msg = M_Edition THEN 9
    ELSE 0

\* a thesis record with organization and without institution
ThesisOrgOnly ==
    /\ parsed.etype = T_thesis
    /\ dict_has(parsed.F, K_organization)
    /\ ~dict_has(parsed.F, K_institution)

\* C17: rule ordering. The issues of a result are in rule order; a thesis
\* record with organization and without institution gets the institution
\* placeholder and, after its issue, the institution/organization issue; a
\* removed abstract is in neither the mapping nor the text of the result.
C17_RuleOrder ==
    pc = "rendered" =>
        /\ \A n \in DOMAIN result.issues : RuleOf(result.issues[n]) \in 1 .. 9
        /\ \A a, b \in DOMAIN result.issues :
               a < b => RuleOf(result.issues[a]) <= RuleOf(result.issues[b])
        /\ ThesisOrgOnly =>
               /\ IsPlaceholder(dict_get(result.F, K_institution, <<>>))
               /\ \E a, b \in DOMAIN result.issues :
                      /\ a < b
                      /\ result.issues[a] = M_Missing \o K_institution \o M_ForThesis
                      /\ result.issues[b] = M_InstOrg
        /\ \A n \in DOMAIN parsed.F :
               lower(parsed.F[n][1]) = K_abstract =>
                   /\ ~dict_has(result.F, parsed.F[n][1])
                   /\ ~contains(result.suggested, field_line(parsed.F[n][1], parsed.F[n][2]))
                   /\ IssueCount(result.issues,
                                 M_Removed \o parsed.F[n][1] \o <<"'", ".">>) = 1

\* suggest_entry has returned on such a thesis record
C17_Witness == pc = "rendered" /\ pass = 1 /\ ThesisOrgOnly

V_nested_cut ==
    <<"A"," ","{","B">>

\* the value v of the name k is read from the text s: a '{' after a run of
\* letters that ends with k (ignoring case), whitespace, '=', whitespace,
\* and v is the text from that '{' to the first '}' after it, trimmed
ReadFrom(s, k, v) ==
    \E q \in 1 .. Len(s) :
        /\ s[q] = "{"
        /\ find(s, "}", q) # -1
        /\ strip(Slice(s, q, find(s, "}", q))) = v
        /\ \E e \in 1 .. q - 1 :
               /\ s[e] = "="
               /\ \A x \in e + 1 .. q - 1 : s[x] \in SpaceChars
               /\ \E a \in Len(k) .. e - 1 :
                      /\ \A x \in a + 1 .. e - 1 : s[x] \in SpaceChars
                      /\ lower(SubSeq(s, a - Len(k) + 1, a)) = k

\* C18: field extraction. Every name of the mapping is lowercase letters
\* only and occurs once; every value is trimmed, has no '}' and is read
\* from a `name = { value }` of the text up to the first '}'; a value with
\* nested braces is cut at the first inner '}'; of a name that occurs more
\* than once the last value is kept.
C18_FieldExtraction ==
    (pc = "suggest" /\ text # <<>>) =>
        /\ NoRepeat(parsed.F)
        /\ \A n \in DOMAIN parsed.F :
               /\ parsed.F[n][1] # <<>>
               /\ Range(parsed.F[n][1]) \subseteq LowerChars
               /\ strip(parsed.F[n][2]) = parsed.F[n][2]
               /\ "}" \notin Range(parsed.F[n][2])
               /\ ReadFrom(text, parsed.F[n][1], parsed.F[n][2])
        /\ text = P_book \o P_nested => parsed.F = <<<<K_title, V_nested_cut>>>>
        /\ text = P_book \o P_author_two \o P_author_one
               => parsed.F = <<<<K_author, A_doe_john>>>>
        /\ text = P_book \o P_author_one \o P_author_two
               => parsed.F = <<<<K_author, A_doe_john \o A_and \o A_smith>>>>
        /\ text = P_book \o P_title \o P_author_two
               => parsed.F = <<<<K_title, V_title_a>>,
                               <<K_author, A_doe_john \o A_and \o A_smith>>>>

\* parse_entry has returned on a text with the same name twice
C18_Witness ==
    /\ pc = "suggest"
    /\ pass = 1
    /\ text = P_book \o P_author_two \o P_author_one
    /\ Len(parsed.F) = 1

(***************************************************************************)
(* Termination and shape of split_entries (SpecLive).                      *)
(***************************************************************************)
\* the chunks lie in the text s from position `from` on, in this order and
\* without overlap
RECURSIVE InOrder(_, _, _)
InOrder(s, chunks, from) ==
    \/ chunks = <<>>
    \/ \E a \in from .. Len(s) - Len(chunks[1]) :
           /\ Slice(s, a, a + Len(chunks[1])) = chunks[1]
           /\ InOrder(s, Tail(chunks), a + Len(chunks[1]))

\* brace depth of the chunk c after its first e characters, counted from
\* the first '{' of the chunk, at 0-based position b
DepthAt(c, b, e) ==
    Cardinality({k \in b + 1 .. e : c[k] = "{"}) - Cardinality({k \in b + 1 .. e : c[k] = "}"})

\* the braces of a chunk, from its first '{' on, balance at its last
\* character and not before
Balanced(c) ==
    /\ find(c, "{", 0) # -1
    /\ DepthAt(c, find(c, "{", 0), Len(c)) = 0
    /\ \A e \in find(c, "{", 0) + 1 .. Len(c) - 1 : DepthAt(c, find(c, "{", 0), e) > 0

\* C19: split_entries terminates and its chunks are in input order and do
\* not overlap. Every iteration of the outer loop ends the loop or moves
\* the scan position strictly forward, within the text; every chunk starts
\* at an '@' and ends where its braces balance or, for the last one, at the
\* end of the text; and the loop is left eventually.
C19_SplitTerminates ==
    /\ [][pc = "split" =>
             \/ pc' = "audit"
             \/ pc' = "split" /\ i < i' /\ i' <= Len(bib_text)]_vars
    /\ [](/\ InOrder(bib_text, entries, 0)
          /\ \A n \in DOMAIN entries :
                 /\ entries[n][1] = "@"
                 /\ Balanced(entries[n])
                        \/ (n = Len(entries) /\ endswith(bib_text, entries[n])))
    /\ <>(pc = "audit")

\* the scan has emitted two chunks and skipped a comment line between them
C19_Witness ==
    /\ pc = "audit"
    /\ Len(entries) = 2
    /\ bib_text = ScenarioD

\* C20: the single-record module and the batch module implement the same
\* audit. On every text parse_entry of bib_audit.py raises exactly when
\* parse_entry of bib_audit_batch.py raises and returns the same type, key
\* and fields; on every type, key and mapping suggest_entry of bib_audit.py
\* returns the same rendered text and the same issues as suggest_entry of
\* bib_audit_batch.py.
C20_SameAudit ==
    [][/\ pc = "parse" => parsed' = single_parse_entry(text)
       /\ pc = "suggest" =>
              result' = single_suggest_entry(parsed.etype, parsed.key, parsed.F)]_vars

\* both modules have rendered a record that came in with a blank field
\* outside the preferred order and got issues
C20_Witness ==
    /\ pc = "rendered"
    /\ result = single_suggest_entry(parsed.etype, parsed.key, parsed.F)
    /\ result.issues # <<>>
    /\ \E n \in DOMAIN parsed.F : parsed.F[n] = <<K_zz, <<>>>>

====
